---- MODULE Spec2Model ----
(***************************************************************************)
(* Model of the profile-registry merge of browser_conf/apply.py:           *)
(* ZenConfig.detect_zen_paths, _parse_profiles_ini,                         *)
(* _register_profile_in_ini and _update_installs_ini.                       *)
(*                                                                         *)
(* A registry file is the list of lines its text splits into               *)
(* (content.split('\n'); '\n'.join(lines) is the inverse, so the list IS   *)
(* the text), or Absent.  A line is a record:                              *)
(*   t = "hdr"  : after strip() it is [name]; name is a sequence of tokens *)
(*   t = "kv"   : not a header and contains '='; k, v are the stripped     *)
(*                halves of split('=', 1); pad says whether the raw line   *)
(*                carried blanks that strip() removes                      *)
(*   t = "text" : anything else (no '=', not a header); v is its text      *)
(* Section names are token sequences so that startswith('Profile'),        *)
(* replace('Install', '') and line[8:-1] are computed as the code          *)
(* computes them; the words Profile and Install are tokens of their own    *)
(* and no other token contains them.                                       *)
(*                                                                         *)
(* The profile directory and zen_install_path, which neither merge         *)
(* function reads, are left out.  Under Spec one behaviour is one or more  *)
(* invocations of the merge on the files the previous one left.  orig_*,   *)
(* prior_* and first_* record the files before the first run, at the start *)
(* of the current run and after the first run.                             *)
(*                                                                         *)
(* SpecFlatten is one call of ZenConfig._flatten_dict on a bounded         *)
(* document.  SpecApply is one run of main(): the configuration is loaded, *)
(* apply() runs detect_zen_paths (the merge above), writes user.js and     *)
(* policies.json, bootstraps the Install sections by launching the         *)
(* browser, which writes the registry while the tool polls it, and opens   *)
(* the setup guide and the mod pages.                                      *)
(***************************************************************************)
EXTENDS Integers, Sequences, FiniteSets, TLC

VARIABLES profiles_ini, installs_ini, profile_name, pc, update_only,
          profile_path, run, orig_profiles, orig_installs,
          prior_profiles, prior_installs, first_profiles, first_installs,
          config, config_arg, flattened_config, fpc,
          apc, config_kind, fs, fs_orig, policies_outcome, browser, waited,
          launches, bootstrapped, failures, ran, zen_mods, mods_left

registryVars == <<profiles_ini, installs_ini, profile_name, pc, update_only,
                  profile_path, run, orig_profiles, orig_installs,
                  prior_profiles, prior_installs, first_profiles, first_installs>>

\* the call of _flatten_dict in generate_user_js: the mapping object passed,
\* a copy of it taken at the call, the result, and the position of the call
flattenVars == <<config, config_arg, flattened_config, fpc>>

\* one run of main(): the position in main()/apply(), what the configuration
\* file loads as, the files and directories outside the registry now and
\* before the run, how generate_policies_json ended, the browser process of
\* the bootstrap, the polls made (waited / interval), the number of poll
\* loops started, the value of `bootstrapped`, the launches and fetches that
\* failed, the steps that ran, the number of configured mods and of those
\* still to open
applyVars == <<apc, config_kind, fs, fs_orig, policies_outcome, browser, waited,
               launches, bootstrapped, failures, ran, zen_mods, mods_left>>

vars == <<registryVars, flattenVars, applyVars>>

\* ------------------------------------------------------------------ bounds
MaxSections == 3
MaxRuns == 2

\* ------------------------------------------------------------------ lines
\* A file: whether it exists and, if so, its lines.  read_text().split('\n')
\* never returns an empty list: the empty file is the single line ''.
Absent == [exists |-> FALSE, lines |-> <<>>]
File(lines) == [exists |-> TRUE, lines |-> lines]

\* dict.get(key) of a missing key
None == "<None>"

Hdr(name) == [t |-> "hdr", name |-> name, k |-> "", v |-> "", pad |-> FALSE]
KV(key, value) == [t |-> "kv", name |-> <<>>, k |-> key, v |-> value, pad |-> FALSE]
RawKV(key, value) == [t |-> "kv", name |-> <<>>, k |-> key, v |-> value, pad |-> TRUE]
Text(s) == [t |-> "text", name |-> <<>>, k |-> "", v |-> s, pad |-> FALSE]
Blank == Text("")

\* f'{n}' for the section numbers the model can reach
NumStr(n) == <<"0", "1", "2", "3", "4", "5", "6", "7", "8", "9">>[n + 1]

\* ------------------------------------------------------------------ dicts
\* A Python dict: a sequence of <<key, value>> pairs without repeated keys,
\* in insertion order.  d[key] = value keeps the position of an existing key.
DictHas(d, key) == \E i \in 1..Len(d) : d[i][1] = key

DictGet(d, key, default) ==
    IF DictHas(d, key)
    THEN d[CHOOSE i \in 1..Len(d) : d[i][1] = key][2]
    ELSE default

DictSet(d, key, value) ==
    IF DictHas(d, key)
    THEN [i \in 1..Len(d) |-> IF d[i][1] = key THEN <<key, value>> ELSE d[i]]
    ELSE Append(d, <<key, value>>)

DictKeys(d) == {d[i][1] : i \in 1..Len(d)}

\* ------------------------------------------------------------------ paths
\* A pathlib.Path: absolute or not, and its components.
MkPath(a, parts) == [abs |-> a, parts |-> parts]

ZenDir == MkPath(TRUE, <<"home", ".zen">>)

\* Path(s) for the path strings of the model; any other string is one
\* relative component.
PathOf(s) ==
    CASE s = "" -> MkPath(FALSE, <<>>)
      [] s = "/home/.zen/a" -> MkPath(TRUE, <<"home", ".zen", "a">>)
      [] s = "/opt/p" -> MkPath(TRUE, <<"opt", "p">>)
      [] OTHER -> MkPath(FALSE, <<s>>)

\* base / p
JoinPath(base, p) ==
    IF p.abs THEN p ELSE MkPath(base.abs, base.parts \o p.parts)

\* (mutation of IsUnder: any absolute path passes)
IsUnderAnyAbsolute(p, base) == p.abs = base.abs
IsUnder(p, base) ==
    /\ p.abs = base.abs
    /\ Len(p.parts) >= Len(base.parts)
    /\ SubSeq(p.parts, 1, Len(base.parts)) = base.parts

\* p.relative_to(base), defined when IsUnder(p, base); raises otherwise
RelativeTo(p, base) ==
    MkPath(FALSE, SubSeq(p.parts, Len(base.parts) + 1, Len(p.parts)))

RECURSIVE JoinParts(_)
JoinParts(parts) ==
    IF Len(parts) = 1 THEN parts[1]
    ELSE parts[1] \o "/" \o JoinParts(Tail(parts))

\* str(p) of a relative path
PathStr(p) == IF p.parts = <<>> THEN "." ELSE JoinParts(p.parts)

\* ------------------------------------------------------------------ strings
\* name.startswith(tok) for tok one of the words Profile, Install
StartsWith(name, tok) == Len(name) > 0 /\ name[1] = tok

\* current_section.replace('Install', ''): every occurrence is removed
ReplaceInstall(name) == SelectSeq(name, LAMBDA tok : tok # "Install")

\* line[8:-1] of a line that starts with '[Install' and ends with ']'
SliceInstall(name) == Tail(name)

\* Code-point order of the first characters of the tokens; no token is a
\* prefix of another, so comparing token sequences lexicographically is
\* comparing the strings.
TokRank(tok) ==
    CASE tok = ".zen" -> 0
      [] tok = "0" -> 1
      [] tok = "1" -> 2
      [] tok = "2" -> 3
      [] tok = "3" -> 4
      [] tok = "A" -> 5
      [] tok = "B" -> 6
      [] tok = "C" -> 7
      [] tok = "General" -> 8
      [] tok = "Install" -> 9
      [] tok = "Other" -> 10
      [] tok = "Profile" -> 11

RECURSIVE StrLess(_, _)
StrLess(a, b) ==
    IF a = <<>> THEN b # <<>>
    ELSE IF b = <<>> THEN FALSE
    ELSE IF Head(a) = Head(b) THEN StrLess(Tail(a), Tail(b))
    ELSE TokRank(Head(a)) < TokRank(Head(b))

\* sorted(S) of a set of strings
RECURSIVE Sorted(_)
Sorted(S) ==
    IF S = {} THEN <<>>
    ELSE LET m == CHOOSE x \in S : \A y \in S \ {x} : StrLess(x, y)
         IN  <<m>> \o Sorted(S \ {m})

\* ------------------------------------------------------------------ _parse_profiles_ini
\* (mutation of LookupStep: a line that is neither a header nor key=value
\* closes the current section)
LookupStepStrict(st, l) ==
    IF l.t = "hdr"
    THEN [cur |-> l.name, data |-> DictSet(st.data, l.name, <<>>)]
    ELSE IF l.t = "kv" /\ st.cur # <<>>
    THEN [cur |-> st.cur,
          data |-> DictSet(st.data, st.cur,
                           DictSet(DictGet(st.data, st.cur, <<>>), l.k, l.v))]
    ELSE [cur |-> <<>>, data |-> st.data]

\* One iteration of the line loop; st = [cur, data], cur = <<>> stands for
\* both None and '' (the code only tests its truth).
LookupStep(st, l) ==
    IF l.t = "hdr"
    THEN [cur |-> l.name, data |-> DictSet(st.data, l.name, <<>>)]
    ELSE IF l.t = "kv" /\ st.cur # <<>>
    THEN [cur |-> st.cur,
          data |-> DictSet(st.data, st.cur,
                           DictSet(DictGet(st.data, st.cur, <<>>), l.k, l.v))]
    ELSE st

RECURSIVE LookupScan(_, _)
LookupScan(lines, st) ==
    IF lines = <<>> THEN st
    ELSE LookupScan(Tail(lines), LookupStep(st, Head(lines)))

SectionData(lines) == LookupScan(lines, [cur |-> <<>>, data |-> <<>>]).data

\* The path of the first Profile* section whose Name is the profile name;
\* found = FALSE is the return of None (path is then unused).
ParseProfilesIni(lines, name) ==
    LET data == SectionData(lines)
        hits == {i \in 1..Len(data) :
                    /\ StartsWith(data[i][1], "Profile")
                    /\ DictGet(data[i][2], "Name", None) = name}
    IN  IF hits = {} THEN [found |-> FALSE, path |-> ZenDir]
        ELSE LET d == data[CHOOSE i \in hits : \A j \in hits : i <= j][2]
             IN  [found |-> TRUE,
                  path |-> IF DictGet(d, "IsRelative", None) = "1"
                           THEN JoinPath(ZenDir, PathOf(DictGet(d, "Path", "")))
                           ELSE PathOf(DictGet(d, "Path", ""))]

\* ------------------------------------------------------------------ _register_profile_in_ini
\* One iteration of the line loop; st = [cur, profiles, installs]:
\* existing_profiles is a list of dicts, install_sections a dict of dicts.
RegisterStep(st, l) ==
    IF l.t = "hdr"
    THEN IF StartsWith(l.name, "Profile")
         THEN [cur |-> l.name, profiles |-> Append(st.profiles, <<>>),
               installs |-> st.installs]
         ELSE IF StartsWith(l.name, "Install")
         THEN [cur |-> l.name, profiles |-> st.profiles,
               installs |-> DictSet(st.installs, ReplaceInstall(l.name), <<>>)]
         ELSE [cur |-> l.name, profiles |-> st.profiles, installs |-> st.installs]
    ELSE IF l.t = "kv" /\ st.cur # <<>>
    THEN IF StartsWith(st.cur, "Profile") /\ st.profiles # <<>>
         THEN [st EXCEPT !.profiles[Len(st.profiles)] = DictSet(@, l.k, l.v)]
         ELSE IF StartsWith(st.cur, "Install")
         THEN [st EXCEPT !.installs =
                  DictSet(@, ReplaceInstall(st.cur),
                          DictSet(DictGet(@, ReplaceInstall(st.cur), <<>>), l.k, l.v))]
         ELSE st
    ELSE st

RECURSIVE RegisterScan(_, _)
RegisterScan(lines, st) ==
    IF lines = <<>> THEN st
    ELSE RegisterScan(Tail(lines), RegisterStep(st, Head(lines)))

\* existing_profiles and install_sections of a file (both empty when the
\* file does not exist)
ParseRegistry(file) ==
    IF ~file.exists
    THEN [cur |-> <<>>, profiles |-> <<>>, installs |-> <<>>]
    ELSE RegisterScan(file.lines, [cur |-> <<>>, profiles |-> <<>>, installs |-> <<>>])

\* (mutation of GeneralLines: Version is left out)
GeneralLinesNoVersion ==
    <<Hdr(<<"General">>), KV("StartWithLastProfile", "1"), Blank>>
GeneralLines ==
    <<Hdr(<<"General">>), KV("StartWithLastProfile", "1"), KV("Version", "2"), Blank>>

\* the key=value lines of a profile, Default left out
RECURSIVE ProfileKeyLines(_)
ProfileKeyLines(prof) ==
    IF prof = <<>> THEN <<>>
    ELSE (IF Head(prof)[1] = "Default" THEN <<>>
          ELSE <<KV(Head(prof)[1], Head(prof)[2])>>)
         \o ProfileKeyLines(Tail(prof))

\* update_only branch: every profile, numbered from num on
RECURSIVE UpdateOnlyLines(_, _, _)
UpdateOnlyLines(profs, num, name) ==
    IF profs = <<>> THEN <<>>
    ELSE <<Hdr(<<"Profile", NumStr(num)>>)>>
         \o ProfileKeyLines(Head(profs))
         \o (IF DictGet(Head(profs), "Name", None) = name
             THEN <<KV("Default", "1")>> ELSE <<>>)
         \o <<Blank>>
         \o UpdateOnlyLines(Tail(profs), num + 1, name)

\* (mutation of NewProfileLines: the new section is numbered one too high)
NewProfileLinesOffByOne(num, name, rel) ==
    <<Hdr(<<"Profile", NumStr(num + 1)>>), KV("Name", name), KV("IsRelative", "1"),
      KV("Path", rel), KV("Default", "1"), Blank>>

\* the section of the new profile
NewProfileLines(num, name, rel) ==
    <<Hdr(<<"Profile", NumStr(num)>>), KV("Name", name), KV("IsRelative", "1"),
      KV("Path", rel), KV("Default", "1"), Blank>>

\* insert branch: the profiles not named name, numbered from num on, then
\* the new profile
RECURSIVE InsertLines(_, _, _, _)
InsertLines(profs, num, name, rel) ==
    IF profs = <<>>
    THEN NewProfileLines(num, name, rel)
    ELSE IF DictGet(Head(profs), "Name", None) = name
    THEN InsertLines(Tail(profs), num, name, rel)
    ELSE <<Hdr(<<"Profile", NumStr(num)>>)>>
         \o ProfileKeyLines(Head(profs))
         \o <<Blank>>
         \o InsertLines(Tail(profs), num + 1, name, rel)

RECURSIVE InstallLines(_, _)
InstallLines(hashes, rel) ==
    IF hashes = <<>> THEN <<>>
    ELSE <<Hdr(<<"Install">> \o Head(hashes)), KV("Default", rel), KV("Locked", "1"), Blank>>
         \o InstallLines(Tail(hashes), rel)

\* The text _register_profile_in_ini writes; called only when
\* IsUnder(path, ZenDir), otherwise relative_to raises before the write.
RegisterProfileInIni(file, name, path, updateOnly) ==
    LET parsed == ParseRegistry(file)
        rel == PathStr(RelativeTo(path, ZenDir))
    IN  File(GeneralLines
             \o (IF updateOnly
                 THEN UpdateOnlyLines(parsed.profiles, 0, name)
                 ELSE InsertLines(parsed.profiles, 0, name, rel))
             \o InstallLines(Sorted(DictKeys(parsed.installs)), rel))

\* ------------------------------------------------------------------ _update_installs_ini
InstallHashesFromProfiles(file) ==
    IF ~file.exists THEN {}
    ELSE {SliceInstall(file.lines[i].name) :
            i \in {j \in 1..Len(file.lines) :
                     /\ file.lines[j].t = "hdr"
                     /\ StartsWith(file.lines[j].name, "Install")}}

\* install_sections.keys() of installs.ini: every section name
InstallsSectionNames(file) ==
    IF ~file.exists THEN {}
    ELSE {file.lines[i].name : i \in {j \in 1..Len(file.lines) : file.lines[j].t = "hdr"}}

RECURSIVE InstallsLines(_, _)
InstallsLines(hashes, rel) ==
    IF hashes = <<>> THEN <<>>
    ELSE <<Hdr(Head(hashes)), KV("Default", rel), KV("Locked", "1"), Blank>>
         \o InstallsLines(Tail(hashes), rel)

\* (mutation of UpdateInstallsIni: a stale installs.ini is left in place)
UpdateInstallsIniNoUnlink(pfile, ifile, path) ==
    LET rel == PathStr(RelativeTo(path, ZenDir))
        fromProfiles == InstallHashesFromProfiles(pfile)
        all_hashes == IF fromProfiles # {} THEN fromProfiles
                      ELSE InstallsSectionNames(ifile)
    IN  IF all_hashes # {} THEN File(InstallsLines(Sorted(all_hashes), rel))
        ELSE ifile

\* (mutation of UpdateInstallsIni: the hashes of both files are merged)
UpdateInstallsIniUnion(pfile, ifile, path) ==
    LET rel == PathStr(RelativeTo(path, ZenDir))
        all_hashes == InstallHashesFromProfiles(pfile) \cup InstallsSectionNames(ifile)
    IN  IF all_hashes # {} THEN File(InstallsLines(Sorted(all_hashes), rel))
        ELSE Absent

\* installs.ini after _update_installs_ini (Absent: unlinked or not created)
UpdateInstallsIni(pfile, ifile, path) ==
    LET rel == PathStr(RelativeTo(path, ZenDir))
        fromProfiles == InstallHashesFromProfiles(pfile)
        all_hashes == IF fromProfiles # {} THEN fromProfiles
                      ELSE InstallsSectionNames(ifile)
    IN  IF all_hashes # {} THEN File(InstallsLines(Sorted(all_hashes), rel))
        ELSE Absent

\* ------------------------------------------------------------------ registries the tool may find
\* Section blocks a prior profiles.ini is built from: profiles of the
\* configured name and of another one, repeated and out-of-order section
\* numbers, relative and absolute paths, Install sections, sections of no
\* family, and lines that are no section at all.
Blocks ==
    { <<Hdr(<<"Profile", "0">>), KV("Name", "work"), KV("IsRelative", "1"), KV("Path", "a")>>,
      <<Hdr(<<"Profile", "0">>), KV("Name", "work"), KV("IsRelative", "1"), KV("Path", "b"),
        KV("Default", "1")>>,
      <<Hdr(<<"Profile", "1">>), RawKV("Name", "other"), KV("IsRelative", "1"), KV("Path", "c"),
        KV("Default", "1"), Blank>>,
      <<Hdr(<<"Profile", "0">>), KV("Name", "other"), KV("Path", "/opt/p")>>,
      <<Hdr(<<"Profile", "2">>), KV("Name", "work"), KV("IsRelative", "0"), KV("Path", "/opt/p")>>,
      <<Hdr(<<"Profile", "2">>), KV("Name", "work"), KV("Path", "/home/.zen/a")>>,
      <<Hdr(<<"Install", "B">>), KV("Default", "zz"), KV("Locked", "0")>>,
      <<Hdr(<<"Install", "A">>), KV("Default", "a"), KV("Extra", "1"), Blank>>,
      <<Hdr(<<"Install", "A", "Install">>), KV("Default", "a")>>,
      <<Hdr(<<"General">>), KV("StartWithLastProfile", "0"), Hdr(<<"Other">>), KV("Foo", "1")>>,
      <<Text("garbage")>>,
      <<KV("Name", "work")>> }

RECURSIVE Flatten(_)
Flatten(bs) == IF bs = <<>> THEN <<>> ELSE Head(bs) \o Flatten(Tail(bs))

BlockSeqs == UNION {[1..n -> Blocks] : n \in 0..MaxSections}

TextOf(bs) == IF bs = <<>> THEN File(<<Blank>>) ELSE File(Flatten(bs))

PriorProfiles == {Absent} \cup {TextOf(bs) : bs \in BlockSeqs}

PriorInstalls ==
    { Absent,
      File(<<Blank>>),
      File(<<Hdr(<<"C">>), KV("Default", "zz"), KV("Locked", "1"), Blank,
             Hdr(<<"A">>), KV("Default", "a"), Blank>>) }

\* config.get("profile", {}).get("name", "default"): a configured name, or
\* the fallback; plain names (one path component)
ConfigNames == {"work", "default"}

\* ------------------------------------------------------------------ state machine
\* the registry merge does not call _flatten_dict
NoFlattenCall ==
    /\ config = <<>>
    /\ config_arg = <<>>
    /\ flattened_config = <<>>
    /\ fpc = "idle"

\* files and directories outside the registry: "absent", "old" (as found),
\* or "new" (written by this run)
NoFiles ==
    [zen_dir |-> TRUE, user_js |-> "absent", distribution |-> FALSE,
     tmp_policies |-> "absent", policies_json |-> "absent", guide |-> "absent"]

\* the registry merge seen on its own: detect_zen_paths has been entered
InDetect ==
    /\ apc = "detect"
    /\ config_kind = "mapping"
    /\ fs = NoFiles
    /\ fs_orig = NoFiles
    /\ policies_outcome = "none"
    /\ browser = "not_launched"
    /\ waited = 0
    /\ launches = 0
    /\ bootstrapped = FALSE
    /\ failures = {}
    /\ ran = {}
    /\ zen_mods = 0
    /\ mods_left = 0

Init ==
    /\ InDetect
    /\ profiles_ini \in PriorProfiles
    /\ installs_ini \in PriorInstalls
    /\ profile_name \in ConfigNames
    /\ pc = "start"
    /\ update_only = FALSE
    /\ profile_path = ZenDir
    /\ run = 1
    /\ orig_profiles = profiles_ini
    /\ orig_installs = installs_ini
    /\ prior_profiles = profiles_ini
    /\ prior_installs = installs_ini
    /\ first_profiles = Absent
    /\ first_installs = Absent
    /\ NoFlattenCall

\* detect_zen_paths up to the call of _register_profile_in_ini: look the
\* profile up and choose the mode and the profile path.
Lookup ==
    /\ apc = "detect"
    /\ pc = "start"
    /\ UNCHANGED <<flattenVars, applyVars>>
    /\ LET res == IF profiles_ini.exists
                  THEN ParseProfilesIni(profiles_ini.lines, profile_name)
                  ELSE [found |-> FALSE, path |-> ZenDir]
       IN  /\ update_only' = res.found
           /\ profile_path' = IF res.found THEN res.path
                              ELSE JoinPath(ZenDir, PathOf(profile_name \o ".default"))
    /\ prior_profiles' = profiles_ini
    /\ prior_installs' = installs_ini
    /\ pc' = "register"
    /\ UNCHANGED <<profiles_ini, installs_ini, profile_name, run, orig_profiles,
                   orig_installs, first_profiles, first_installs>>

\* _register_profile_in_ini, relative_to succeeds
Register ==
    /\ apc = "detect"
    /\ pc = "register"
    /\ UNCHANGED <<flattenVars, applyVars>>
    /\ IsUnder(profile_path, ZenDir)
    /\ profiles_ini' = RegisterProfileInIni(profiles_ini, profile_name, profile_path, update_only)
    /\ pc' = "installs"
    /\ UNCHANGED <<installs_ini, profile_name, update_only, profile_path, run,
                   orig_profiles, orig_installs, prior_profiles, prior_installs,
                   first_profiles, first_installs>>

\* _register_profile_in_ini, relative_to raises ValueError: nothing is
\* written and the exception ends the run
RegisterRaises ==
    /\ apc = "detect"
    /\ pc = "register"
    /\ UNCHANGED <<flattenVars, applyVars>>
    /\ ~IsUnder(profile_path, ZenDir)
    /\ pc' = "failed"
    /\ UNCHANGED <<profiles_ini, installs_ini, profile_name, update_only, profile_path,
                   run, orig_profiles, orig_installs, prior_profiles, prior_installs,
                   first_profiles, first_installs>>

\* _update_installs_ini
UpdateInstalls ==
    /\ apc = "detect"
    /\ pc = "installs"
    /\ UNCHANGED <<flattenVars, applyVars>>
    /\ installs_ini' = UpdateInstallsIni(profiles_ini, installs_ini, profile_path)
    /\ pc' = "done"
    /\ UNCHANGED <<profiles_ini, profile_name, update_only, profile_path, run,
                   orig_profiles, orig_installs, prior_profiles, prior_installs,
                   first_profiles, first_installs>>

\* the tool is invoked again on the files it left
Rerun ==
    /\ apc = "detect"
    /\ pc = "done"
    /\ UNCHANGED <<flattenVars, applyVars>>
    /\ run < MaxRuns
    /\ run' = run + 1
    /\ pc' = "start"
    /\ first_profiles' = IF run = 1 THEN profiles_ini ELSE first_profiles
    /\ first_installs' = IF run = 1 THEN installs_ini ELSE first_installs
    /\ UNCHANGED <<profiles_ini, installs_ini, profile_name, update_only, profile_path,
                   orig_profiles, orig_installs, prior_profiles, prior_installs>>

Next == Lookup \/ Register \/ RegisterRaises \/ UpdateInstalls \/ Rerun

Spec == Init /\ [][Next]_vars

\* ------------------------------------------------------------------ reading a registry text
\* The sections of a text as the registry format defines them: each header
\* opens a section, each key=value line belongs to the last opened one.
RECURSIVE Group(_, _)
Group(lines, acc) ==
    IF lines = <<>> THEN acc
    ELSE LET l == Head(lines)
         IN  IF l.t = "hdr"
             THEN Group(Tail(lines), Append(acc, [name |-> l.name, body |-> <<>>]))
             ELSE IF l.t = "kv" /\ acc # <<>>
             THEN Group(Tail(lines),
                        [acc EXCEPT ![Len(acc)].body = Append(@, <<l.k, l.v>>)])
             ELSE Group(Tail(lines), acc)

SectionsOf(file) == IF file.exists THEN Group(file.lines, <<>>) ELSE <<>>

IsProfile(sec) == Len(sec.name) > 0 /\ sec.name[1] = "Profile"
IsInstall(sec) == Len(sec.name) > 0 /\ sec.name[1] = "Install"

ProfileSections(file) == SelectSeq(SectionsOf(file), IsProfile)
InstallSections(file) == SelectSeq(SectionsOf(file), IsInstall)

\* the key/value pairs a section holds (the last line of a key counts)
KeyMap(sec) ==
    {sec.body[i] : i \in {j \in 1..Len(sec.body) :
                            \A m \in (j + 1)..Len(sec.body) : sec.body[m][1] # sec.body[j][1]}}

Keys(sec) == {kv[1] : kv \in KeyMap(sec)}
NonDefault(sec) == {kv \in KeyMap(sec) : kv[1] # "Default"}

\* the hash of an [Install<hash>] section
HashOf(sec) == SubSeq(sec.name, 2, Len(sec.name))

\* the relative profile path of the current run, as written into the files
RelPath == PathStr(RelativeTo(profile_path, ZenDir))

Merged == pc = "installs"

\* ------------------------------------------------------------------ claims
\* C1: after any successful run of _register_profile_in_ini, in either mode,
\* exactly one Profile* section of profiles.ini carries Default=1 and its
\* Name is the configured profile name.
C1_ExactlyOneDefault ==
    Merged =>
        LET ps == ProfileSections(profiles_ini)
            ds == {i \in 1..Len(ps) : <<"Default", "1">> \in KeyMap(ps[i])}
        IN  /\ Cardinality(ds) = 1
            /\ \A i \in ds : <<"Name", profile_name>> \in KeyMap(ps[i])

\* C2: a second run of the merge pipeline on the files the first run left
\* produces the same profiles.ini and installs.ini, byte for byte.
C2_Idempotent ==
    (run = 2 /\ pc = "done") =>
        /\ profiles_ini = first_profiles
        /\ installs_ini = first_installs

\* C3: in update-only mode every Profile* section is re-emitted in its
\* original order, under its original section name, with its keys other
\* than Default unchanged; Default is removed everywhere and Default=1 is
\* added exactly to the sections whose Name is the target name.
C3_UpdateOnlyFrame ==
    (Merged /\ update_only) =>
        LET ins == ProfileSections(prior_profiles)
            outs == ProfileSections(profiles_ini)
        IN  /\ Len(outs) = Len(ins)
            /\ \A i \in 1..Len(outs) :
                 /\ outs[i].name = ins[i].name
                 /\ NonDefault(outs[i]) = NonDefault(ins[i])
                 /\ IF <<"Name", profile_name>> \in KeyMap(ins[i])
                    THEN {kv \in KeyMap(outs[i]) : kv[1] = "Default"} = {<<"Default", "1">>}
                    ELSE "Default" \notin Keys(outs[i])

C5_InstallsReemitted ==
    Merged =>
        LET ins == InstallSections(prior_profiles)
            outs == InstallSections(profiles_ini)
        IN  /\ \A i \in 1..Len(ins) : \E j \in 1..Len(outs) : outs[j].name = ins[i].name
            /\ \A i \in 1..Len(outs), j \in 1..Len(outs) :
                 i < j => StrLess(HashOf(outs[i]), HashOf(outs[j]))
            /\ \A j \in 1..Len(outs) :
                 KeyMap(outs[j]) = {<<"Default", RelPath>>, <<"Locked", "1">>}

NoInstallInProfiles == InstallSections(profiles_ini) = <<>>

SectionNames(file) == {SectionsOf(file)[i].name : i \in 1..Len(SectionsOf(file))}

\* C6 as stated: if profiles.ini has no Install* section when
\* _update_installs_ini runs, installs.ini does not exist afterwards,
\* whatever it contained before.
C6_InstallsRemoved ==
    (pc = "done" /\ NoInstallInProfiles) => ~installs_ini.exists

\* C6 amended: if profiles.ini has no Install* section when
\* _update_installs_ini runs, installs.ini does not exist afterwards when the
\* prior installs.ini was absent or had no section; when it had sections it
\* is rewritten with exactly those section names, each with
\* Default=<relative path> and Locked=1.
C6_InstallsRemovedUnlessSections ==
    (pc = "done" /\ NoInstallInProfiles) =>
        IF SectionsOf(prior_installs) = <<>>
        THEN ~installs_ini.exists
        ELSE /\ installs_ini.exists
             /\ SectionNames(installs_ini) = SectionNames(prior_installs)
             /\ \A i \in 1..Len(SectionsOf(installs_ini)) :
                  KeyMap(SectionsOf(installs_ini)[i])
                    = {<<"Default", RelPath>>, <<"Locked", "1">>}

\* C6 witness: a stale installs.ini without sections has been deleted
C6_Witness ==
    /\ pc = "done"
    /\ NoInstallInProfiles
    /\ prior_installs.exists
    /\ SectionsOf(prior_installs) = <<>>
    /\ ~installs_ini.exists

OrigHashes ==
    {HashOf(InstallSections(orig_profiles)[i]) : i \in 1..Len(InstallSections(orig_profiles))}
    \cup SectionNames(orig_installs)

\* C7: the tool never invents an install hash: after any sequence of
\* merges every Install<hash> section of profiles.ini and every section of
\* installs.ini carries a hash the registry held before the tool ran.
C7_NoInventedHash ==
    (pc \in {"installs", "done"}) =>
        /\ \A i \in 1..Len(InstallSections(profiles_ini)) :
             HashOf(InstallSections(profiles_ini)[i]) \in OrigHashes
        /\ pc = "done" => SectionNames(installs_ini) \subseteq OrigHashes

ProfileHashes ==
    {HashOf(InstallSections(profiles_ini)[i]) : i \in 1..Len(InstallSections(profiles_ini))}

\* C8: when the merged profiles.ini has an Install* section, installs.ini
\* holds exactly one section per install hash of profiles.ini and no other
\* section, each with Default=<relative path> and Locked=1.
C8_InstallsMirror ==
    (pc = "done" /\ ~NoInstallInProfiles) =>
        /\ installs_ini.exists
        /\ SectionNames(installs_ini) = ProfileHashes
        /\ Len(SectionsOf(installs_ini)) = Cardinality(ProfileHashes)
        /\ \A i \in 1..Len(SectionsOf(installs_ini)) :
             KeyMap(SectionsOf(installs_ini)[i])
               = {<<"Default", RelPath>>, <<"Locked", "1">>}

\* C8 witness: a section of the prior installs.ini whose hash is not in
\* profiles.ini has been dropped
C8_Witness ==
    /\ pc = "done"
    /\ ~NoInstallInProfiles
    /\ SectionNames(prior_installs) \ ProfileHashes # {}
    /\ installs_ini.exists

EmptyOrAbsent(file) == ~file.exists \/ file.lines = <<Blank>>

\* C9: merging a brand-new profile when profiles.ini and installs.ini are
\* absent or empty does not fail; profiles.ini then has Profile0 as its only
\* Profile* section, with Default=1 and the configured Name, and no Install*
\* section, and installs.ini is absent afterwards.
C9_FirstRunBootstrap ==
    (run = 1 /\ EmptyOrAbsent(orig_profiles) /\ EmptyOrAbsent(orig_installs)) =>
        /\ pc # "failed"
        /\ pc \in {"installs", "done"} =>
             /\ Len(ProfileSections(profiles_ini)) = 1
             /\ ProfileSections(profiles_ini)[1].name = <<"Profile", "0">>
             /\ {<<"Default", "1">>, <<"Name", profile_name>>}
                  \subseteq KeyMap(ProfileSections(profiles_ini)[1])
             /\ NoInstallInProfiles
        /\ pc = "done" => ~installs_ini.exists

\* C9 witness: the first run has completed from an empty profiles.ini and
\* an empty installs.ini
C9_Witness ==
    /\ run = 1
    /\ pc = "done"
    /\ orig_profiles = File(<<Blank>>)
    /\ orig_installs = File(<<Blank>>)
    /\ profiles_ini # orig_profiles

\* the lines C10 calls malformed: no '=' and no header, or key=value before
\* any header
RECURSIVE DropMalformed(_, _)
DropMalformed(lines, seenHeader) ==
    IF lines = <<>> THEN <<>>
    ELSE LET l == Head(lines)
         IN  IF l.t = "text" \/ (l.t = "kv" /\ ~seenHeader)
             THEN DropMalformed(Tail(lines), seenHeader)
             ELSE <<l>> \o DropMalformed(Tail(lines), seenHeader \/ l.t = "hdr")

WellFormed(file) ==
    IF ~file.exists THEN file
    ELSE IF DropMalformed(file.lines, FALSE) = <<>> THEN File(<<Blank>>)
    ELSE File(DropMalformed(file.lines, FALSE))

\* what detect_zen_paths leaves when started on the given files
Outcome(pfile, ifile, name) ==
    LET res == IF pfile.exists THEN ParseProfilesIni(pfile.lines, name)
               ELSE [found |-> FALSE, path |-> ZenDir]
        path == IF res.found THEN res.path
                ELSE JoinPath(ZenDir, PathOf(name \o ".default"))
    IN  IF ~IsUnder(path, ZenDir)
        THEN [status |-> "failed", profiles |-> pfile, installs |-> ifile]
        ELSE LET merged == RegisterProfileInIni(pfile, name, path, res.found)
             IN  [status |-> "done", profiles |-> merged,
                  installs |-> UpdateInstallsIni(merged, ifile, path)]

\* C10: malformed lines never make the lookup or the merge fail (the run
\* fails only if it fails without them), and the merge output is the output
\* obtained from the text without those lines.
C10_MalformedIgnored ==
    (run = 1 /\ pc \in {"done", "failed"}) =>
        LET clean == Outcome(WellFormed(orig_profiles), orig_installs, profile_name)
        IN  /\ pc = clean.status
            /\ pc = "done" => /\ profiles_ini = clean.profiles
                              /\ installs_ini = clean.installs

\* C10 witness: a run has completed on a text in which a malformed line
\* stands inside a section, between its header and a later key of it
C10_Witness ==
    /\ run = 1
    /\ pc = "done"
    /\ orig_profiles.exists
    /\ \E i, j, m \in 1..Len(orig_profiles.lines) :
         /\ i < j /\ j < m
         /\ orig_profiles.lines[i].t = "hdr"
         /\ orig_profiles.lines[j].t = "text"
         /\ orig_profiles.lines[m].t = "kv"
         /\ \A n \in (i + 1)..m : orig_profiles.lines[n].t # "hdr"

\* C11: a profile record is never deleted: every Profile* section present
\* before a merge is present after it with the same Name and the same
\* key/value pairs other than Default.
C11_ProfileNeverDeleted ==
    Merged =>
        \A i \in 1..Len(ProfileSections(prior_profiles)) :
            \E j \in 1..Len(ProfileSections(profiles_ini)) :
                NonDefault(ProfileSections(profiles_ini)[j])
                  = NonDefault(ProfileSections(prior_profiles)[i])

\* ------------------------------------------------------------------ _flatten_dict
\* A value of the configuration document: a mapping (an ordered dict of
\* <<key, value>> items) or anything else (scalar, list), which the code
\* only passes on.  A key and a dot-path are the sequence of segments that
\* the string splits into at '.', so f"{parent_key}.{k}" is concatenation
\* and the key "a.a" of one mapping equals the path of key "a" under "a".
\* Segments are non-empty, so the empty string (the top-level parent_key)
\* is the empty sequence.
Leaf(x) == [kind |-> "leaf", val |-> x, items |-> <<>>]

Map(its) == [kind |-> "map", val |-> "", items |-> its]

\* isinstance(v, dict)
IsMap(v) == v.kind = "map"

EnabledKey == <<"enabled">>

\* new_key = f"{parent_key}{sep}{k}" if parent_key else k
NewKey(parent_key, k) == IF parent_key = <<>> THEN k ELSE parent_key \o k

\* "enabled" in v and len(v) > 1
Promotes(v) == DictHas(v.items, EnabledKey) /\ Len(v.items) > 1

\* remaining = {key: val for key, val in v.items() if key != "enabled"}
Remaining(v) == SelectSeq(v.items, LAMBDA e : e[1] # EnabledKey)

\* dict(items): a repeated key keeps its first position and its last value
RECURSIVE DictFrom(_, _)
DictFrom(acc, items) ==
    IF items = <<>> THEN acc
    ELSE DictFrom(DictSet(acc, items[1][1], items[1][2]), Tail(items))

\* the list `items` at the return, and the dict made of it
RECURSIVE FlattenItems(_, _), FlattenDict(_, _)
FlattenItems(d, parent_key) ==
    IF d = <<>> THEN <<>>
    ELSE LET k == d[1][1]
             v == d[1][2]
             new_key == NewKey(parent_key, k)
             emitted ==
                 IF IsMap(v)
                 THEN IF Promotes(v)
                      THEN <<<<new_key, DictGet(v.items, EnabledKey, v)>>>>
                             \o FlattenDict(Remaining(v), new_key)
                      ELSE FlattenDict(v.items, new_key)
                 ELSE <<<<new_key, v>>>>
         IN  emitted \o FlattenItems(Tail(d), parent_key)

FlattenDict(d, parent_key) == DictFrom(<<>>, FlattenItems(d, parent_key))

\* What the call leaves in the objects it was given.  `remaining` is a new
\* dict built by a comprehension and v["enabled"] is only read, so a
\* promoted mapping keeps all its items; the recursion is handed the nested
\* values themselves.
ItemsLeftPop(v) == IF Promotes(v) THEN Remaining(v) ELSE v.items
ItemsLeft(v) == v.items

RECURSIVE ArgAfter(_), ValueAfter(_)
ArgAfter(d) == [i \in 1..Len(d) |-> <<d[i][1], ValueAfter(d[i][2])>>]

ValueAfter(v) == IF IsMap(v) THEN Map(ArgAfter(ItemsLeft(v))) ELSE v

\* ------------------------------------------------------------------ flatten inputs
\* largest number of keys of an input document, nested ones included
MaxEntries == 4

\* keys of a mapping: "enabled", a plain key, and a key that contains the
\* separator
ConfigKeys == {EnabledKey, <<"a">>, <<"a", "a">>}

\* non-mapping values: a scalar and a list
Leaves == {Leaf("True"), Leaf("[1]")}

RECURSIVE Entries(_)
Entries(d) ==
    IF d = <<>> THEN 0
    ELSE 1 + (IF IsMap(d[1][2]) THEN Entries(d[1][2].items) ELSE 0) + Entries(Tail(d))

\* the mappings of at most n entries whose top-level keys are distinct
\* members of ks, in every insertion order; ValuesOf(e) are the values that
\* hold exactly e entries
RECURSIVE Mappings(_, _), ValuesOf(_)
Mappings(n, ks) ==
    IF n = 0 THEN {<<>>}
    ELSE {<<>>} \cup
         UNION { LET vs == ValuesOf(e)
                 IN  UNION { LET rest == Mappings(n - 1 - e, ks \ {k})
                             IN  { <<<<k, v>>>> \o r : v \in vs, r \in rest } :
                             k \in ks } :
                 e \in 0..(n - 1) }

ValuesOf(e) ==
    IF e = 0 THEN Leaves \cup {Map(<<>>)}
    ELSE { Map(d) : d \in { m \in Mappings(e, ConfigKeys) : Entries(m) = e } }

\* ------------------------------------------------------------------ flatten call
RegistryIdle ==
    /\ profiles_ini = Absent
    /\ installs_ini = Absent
    /\ profile_name = "default"
    /\ pc = "idle"
    /\ update_only = FALSE
    /\ profile_path = ZenDir
    /\ run = 1
    /\ orig_profiles = Absent
    /\ orig_installs = Absent
    /\ prior_profiles = Absent
    /\ prior_installs = Absent
    /\ first_profiles = Absent
    /\ first_installs = Absent

InitFlatten ==
    /\ RegistryIdle
    /\ InDetect
    /\ config \in Mappings(MaxEntries, ConfigKeys)
    /\ config_arg = config
    /\ flattened_config = <<>>
    /\ fpc = "call"

\* flattened_config = self._flatten_dict(self.config["config"])
FlattenCall ==
    /\ fpc = "call"
    /\ flattened_config' = FlattenDict(config, <<>>)
    /\ config' = ArgAfter(config)
    /\ fpc' = "returned"
    /\ UNCHANGED <<config_arg, registryVars, applyVars>>

NextFlatten == FlattenCall

SpecFlatten == InitFlatten /\ [][NextFlatten]_vars

\* ------------------------------------------------------------------ reading a flatten call
Returned == fpc = "returned"

\* v has the key "enabled" and at least one other key
HasEnabledAndOther(v) ==
    /\ \E i \in 1..Len(v.items) : v.items[i][1] = EnabledKey
    /\ \E i \in 1..Len(v.items) : v.items[i][1] # EnabledKey

EnabledOf(v) == v.items[CHOOSE i \in 1..Len(v.items) : v.items[i][1] = EnabledKey][2]

Others(v) == SelectSeq(v.items, LAMBDA e : e[1] # EnabledKey)

Dotted(p, k) == IF p = <<>> THEN k ELSE p \o k

\* the depth-first pre-order traversal of a mapping: the <<path, value>>
\* pairs to emit, a promoted "enabled" value at its parent's position
RECURSIVE PreOrder(_, _)
PreOrder(d, p) ==
    IF d = <<>> THEN <<>>
    ELSE LET q == Dotted(p, d[1][1])
             v == d[1][2]
         IN  (IF IsMap(v)
              THEN IF HasEnabledAndOther(v)
                   THEN <<<<q, EnabledOf(v)>>>> \o PreOrder(Others(v), q)
                   ELSE PreOrder(v.items, q)
              ELSE <<<<q, v>>>>)
             \o PreOrder(Tail(d), p)

\* every key of the document with its path and value, as the traversal
\* meets it
RECURSIVE Nodes(_, _)
Nodes(d, p) ==
    UNION { LET q == Dotted(p, d[i][1])
                v == d[i][2]
            IN  {<<q, v>>} \cup
                (IF IsMap(v)
                 THEN Nodes(IF HasEnabledAndOther(v) THEN Others(v) ELSE v.items, q)
                 ELSE {}) :
            i \in 1..Len(d) }

Entry(d, key, value) == \E i \in 1..Len(d) : d[i] = <<key, value>>

\* no two emitted pairs share a dot-path
NoCollision(d) ==
    \A i, j \in 1..Len(PreOrder(d, <<>>)) :
        PreOrder(d, <<>>)[i][1] = PreOrder(d, <<>>)[j][1] => i = j

\* C12: for every key at path p whose value v is a mapping with "enabled"
\* and at least one other key, the result maps p to v["enabled"], contains
\* the flattening of v without "enabled" under p, and has no entry
\* p.enabled.
C12_PromotesEnabled ==
    Returned =>
        \A n \in Nodes(config_arg, <<>>) :
            (IsMap(n[2]) /\ HasEnabledAndOther(n[2])) =>
                /\ Entry(flattened_config, n[1], EnabledOf(n[2]))
                /\ \A i \in 1..Len(FlattenDict(Others(n[2]), n[1])) :
                       Entry(flattened_config,
                             FlattenDict(Others(n[2]), n[1])[i][1],
                             FlattenDict(Others(n[2]), n[1])[i][2])
                /\ ~DictHas(flattened_config, n[1] \o EnabledKey)

\* C13: a mapping at path p whose only key is "enabled", or without
\* "enabled", gives no entry for p and its keys appear as p.<key>; a
\* non-mapping value at path p is the entry (p, v).
C13_NoPromotionOfLoneEnabled ==
    Returned =>
        \A n \in Nodes(config_arg, <<>>) :
            IF IsMap(n[2])
            THEN ~HasEnabledAndOther(n[2]) =>
                    /\ ~DictHas(flattened_config, n[1])
                    /\ \A i \in 1..Len(n[2].items) :
                           ~IsMap(n[2].items[i][2]) =>
                               Entry(flattened_config, n[1] \o n[2].items[i][1],
                                     n[2].items[i][2])
            ELSE Entry(flattened_config, n[1], n[2])

\* C14: the entries of the result, in iteration order, are the depth-first
\* pre-order traversal of the input in insertion order, paths joined with
\* '.', a promoted "enabled" value before its parent's other children.
C14_PreOrder ==
    Returned => flattened_config = PreOrder(config_arg, <<>>)

\* C15: when the call has returned, the mapping it was given, nested
\* mappings that contain "enabled" included, is what it was at the call, and
\* the result is the one value the input determines.
C15_Pure ==
    Returned =>
        /\ config = config_arg
        /\ flattened_config = DictFrom(<<>>, PreOrder(config_arg, <<>>))

C15_Witness ==
    /\ Returned
    /\ \E n \in Nodes(config_arg, <<>>) : IsMap(n[2]) /\ HasEnabledAndOther(n[2])
    /\ \E n \in Nodes(config_arg, <<>>) : IsMap(n[2]) /\ ~HasEnabledAndOther(n[2])

\* C16: every value of the returned mapping is a non-mapping value.
C16_LeavesOnly ==
    Returned => \A i \in 1..Len(flattened_config) : ~IsMap(flattened_config[i][2])

\* ------------------------------------------------------------------ main() and apply()
\* largest number of entries of zen_mods in the configuration
MaxMods == 2

\* max_wait = 15 (seconds); interval = 0.5 (seconds), two polls a second.
\* `waited` counts polls, so the loop condition waited < max_wait reads
\* waited < max_wait * polls_per_second.
max_wait == 15
polls_per_second == 2

\* (mutation of KeepPolling: one poll more)
KeepPollingOneMore(w) == w <= max_wait * polls_per_second
\* while waited < max_wait
KeepPolling(w) == w < max_wait * polls_per_second

\* (mutation of HasInstall: the section is never seen)
HasInstallNever(file) == FALSE
\* '[Install' in content
HasInstall(file) ==
    /\ file.exists
    /\ \E i \in 1..Len(file.lines) :
           file.lines[i].t = "hdr" /\ StartsWith(file.lines[i].name, "Install")

\* How generate_policies_json leaves the files: the rendered text is parsed
\* first and sys.exit(1) follows an invalid one; then the distribution
\* directory is made, /tmp/policies.json is written and copied, and removed
\* after a successful copy.  outcome is what the environment lets happen.
GeneratePoliciesJsonWriteFirst(f, outcome) ==
    IF outcome = "invalid" THEN [f EXCEPT !.tmp_policies = "new"]
    ELSE IF outcome = "mkdir_failed" THEN f
    ELSE IF outcome = "copy_failed"
         THEN [f EXCEPT !.distribution = TRUE, !.tmp_policies = "new"]
    ELSE [f EXCEPT !.distribution = TRUE, !.tmp_policies = "absent",
                   !.policies_json = "new"]
GeneratePoliciesJson(f, outcome) ==
    IF outcome \in {"invalid", "mkdir_failed"} THEN f
    ELSE IF outcome = "copy_failed"
         THEN [f EXCEPT !.distribution = TRUE, !.tmp_policies = "new"]
    ELSE [f EXCEPT !.distribution = TRUE, !.tmp_policies = "absent",
                   !.policies_json = "new"]

\* the position after subprocess.Popen(['zen-browser', guide_path]) inside
\* try/except Exception
AfterOpenGuideUncaught(ok) == IF ok THEN "mods" ELSE "raised"
AfterOpenGuide(ok) == "mods"

\* what a browser started without an Install section writes: a section for
\* its own install hash in profiles.ini, and installs.ini
BrowserInstall == <<Hdr(<<"Install", "A">>), KV("Default", "a"), KV("Locked", "1")>>

BrowserInstalls == File(<<Hdr(<<"A">>), KV("Default", "a"), KV("Locked", "1")>>)

\* registries a run of main() starts from
ApplyProfiles ==
    { Absent,
      File(<<Hdr(<<"Profile", "0">>), KV("Name", "work"), KV("IsRelative", "1"),
             KV("Path", "a")>>),
      File(<<Hdr(<<"Profile", "0">>), KV("Name", "other"), KV("IsRelative", "1"),
             KV("Path", "c"), KV("Default", "1"),
             Hdr(<<"Install", "B">>), KV("Default", "c"), KV("Locked", "1")>>),
      File(<<Hdr(<<"Profile", "0">>), KV("Name", "work"), KV("IsRelative", "0"),
             KV("Path", "/opt/p")>>) }

InitApply ==
    /\ profiles_ini \in ApplyProfiles
    /\ installs_ini = Absent
    /\ profile_name = "work"
    /\ pc = "start"
    /\ update_only = FALSE
    /\ profile_path = ZenDir
    /\ run = 1
    /\ orig_profiles = profiles_ini
    /\ orig_installs = installs_ini
    /\ prior_profiles = profiles_ini
    /\ prior_installs = installs_ini
    /\ first_profiles = Absent
    /\ first_installs = Absent
    /\ NoFlattenCall
    /\ apc = "main"
    /\ config_kind \in {"mapping", "not_mapping", "unparsable"}
    /\ fs \in { [NoFiles EXCEPT !.zen_dir = z, !.tmp_policies = t,
                                !.policies_json = t, !.distribution = (t = "old")] :
                z \in {profiles_ini.exists, TRUE}, t \in {"absent", "old"} }
    /\ fs_orig = fs
    /\ policies_outcome = "none"
    /\ browser = "not_launched"
    /\ waited = 0
    /\ launches = 0
    /\ bootstrapped = FALSE
    /\ failures = {}
    /\ ran = {}
    /\ zen_mods \in 0..MaxMods
    /\ mods_left = 0

\* main(): ZenConfig(config_path); yaml.safe_load raises on a text that is
\* not YAML and returns whatever the document is otherwise
LoadConfig ==
    /\ apc = "main"
    /\ apc' = IF config_kind = "unparsable" THEN "raised" ELSE "apply"
    /\ UNCHANGED <<registryVars, flattenVars, config_kind, fs, fs_orig,
                   policies_outcome, browser, waited, launches, bootstrapped,
                   failures, ran, zen_mods, mods_left>>

\* detect_zen_paths up to the profile name: zen_dir.mkdir, then
\* self.config.get("profile", {}), an AttributeError unless the document is
\* a mapping
EnterDetect ==
    /\ apc = "apply"
    /\ fs' = [fs EXCEPT !.zen_dir = TRUE]
    /\ apc' = IF config_kind = "mapping" THEN "detect" ELSE "raised"
    /\ UNCHANGED <<registryVars, flattenVars, config_kind, fs_orig,
                   policies_outcome, browser, waited, launches, bootstrapped,
                   failures, ran, zen_mods, mods_left>>

\* the ValueError of _register_profile_in_ini leaves apply() and main()
DetectRaised ==
    /\ apc = "detect"
    /\ pc = "failed"
    /\ apc' = "raised"
    /\ UNCHANGED <<registryVars, flattenVars, config_kind, fs, fs_orig,
                   policies_outcome, browser, waited, launches, bootstrapped,
                   failures, ran, zen_mods, mods_left>>

\* generate_user_js
GenerateUserJs ==
    /\ apc = "detect"
    /\ pc = "done"
    /\ fs' = [fs EXCEPT !.user_js = "new"]
    /\ ran' = ran \cup {"user_js"}
    /\ apc' = "policies"
    /\ UNCHANGED <<registryVars, flattenVars, config_kind, fs_orig,
                   policies_outcome, browser, waited, launches, bootstrapped,
                   failures, zen_mods, mods_left>>

\* generate_policies_json; the directory can only fail to be made when it is
\* not there
PoliciesStep ==
    /\ apc = "policies"
    /\ \E outcome \in {"invalid", "mkdir_failed", "copy_failed", "installed"} :
           /\ outcome = "mkdir_failed" => ~fs.distribution
           /\ policies_outcome' = outcome
           /\ fs' = GeneratePoliciesJson(fs, outcome)
           /\ apc' = IF outcome = "installed" THEN "bookmarks" ELSE "exit1"
           /\ ran' = IF outcome = "installed" THEN ran \cup {"policies"} ELSE ran
    /\ UNCHANGED <<registryVars, flattenVars, config_kind, fs_orig, browser,
                   waited, launches, bootstrapped, failures, zen_mods, mods_left>>

\* create_search_engine_bookmarks: the bookmark database is not modelled
CreateBookmarks ==
    /\ apc = "bookmarks"
    /\ ran' = ran \cup {"bookmarks"}
    /\ apc' = "bootstrap"
    /\ UNCHANGED <<registryVars, flattenVars, config_kind, fs, fs_orig,
                   policies_outcome, browser, waited, launches, bootstrapped,
                   failures, zen_mods, mods_left>>

\* _bootstrap_install_sections up to the loop: return False when an Install
\* section is there, else launch the browser; a Popen that raises is caught
\* and the function returns False
BootstrapLaunch ==
    /\ apc = "bootstrap"
    /\ ran' = ran \cup {"bootstrap"}
    /\ IF HasInstall(profiles_ini)
       THEN /\ apc' = "guide"
            /\ UNCHANGED <<browser, waited, launches, failures>>
       ELSE \E ok \in BOOLEAN :
                IF ok
                THEN /\ browser' = "running"
                     /\ waited' = 0
                     /\ launches' = launches + 1
                     /\ apc' = "polling"
                     /\ UNCHANGED failures
                ELSE /\ failures' = failures \cup {"bootstrap"}
                     /\ apc' = "guide"
                     /\ UNCHANGED <<browser, waited, launches>>
    /\ bootstrapped' = FALSE
    /\ UNCHANGED <<registryVars, flattenVars, config_kind, fs, fs_orig,
                   policies_outcome, zen_mods, mods_left>>

\* one turn of the loop: sleep, waited += interval, read profiles.ini, break
\* when it has an Install section
Poll ==
    /\ apc = "polling"
    /\ KeepPolling(waited)
    /\ waited' = waited + 1
    /\ apc' = IF HasInstall(profiles_ini) THEN "kill" ELSE "polling"
    /\ UNCHANGED <<registryVars, flattenVars, config_kind, fs, fs_orig,
                   policies_outcome, browser, launches, bootstrapped, failures,
                   ran, zen_mods, mods_left>>

\* the loop condition fails
PollTimeout ==
    /\ apc = "polling"
    /\ ~KeepPolling(waited)
    /\ apc' = "kill"
    /\ UNCHANGED <<registryVars, flattenVars, config_kind, fs, fs_orig,
                   policies_outcome, browser, waited, launches, bootstrapped,
                   failures, ran, zen_mods, mods_left>>

\* the browser, while it runs, writes its Install section
BrowserWrites ==
    /\ browser = "running"
    /\ ~HasInstall(profiles_ini)
    /\ profiles_ini' = File((IF profiles_ini.exists THEN profiles_ini.lines ELSE <<>>)
                            \o BrowserInstall)
    /\ installs_ini' = BrowserInstalls
    /\ UNCHANGED <<profile_name, pc, update_only, profile_path, run, orig_profiles,
                   orig_installs, prior_profiles, prior_installs, first_profiles,
                   first_installs, flattenVars, applyVars>>

\* os.killpg(SIGTERM), proc.wait, SIGKILL when that fails
KillBrowser ==
    /\ apc = "kill"
    /\ browser' = "terminated"
    /\ apc' = "verify"
    /\ UNCHANGED <<registryVars, flattenVars, config_kind, fs, fs_orig,
                   policies_outcome, waited, launches, bootstrapped, failures,
                   ran, zen_mods, mods_left>>

\* the final check of _bootstrap_install_sections and `if bootstrapped:`
VerifyInstall ==
    /\ apc = "verify"
    /\ bootstrapped' = HasInstall(profiles_ini)
    /\ apc' = IF HasInstall(profiles_ini) THEN "remerge" ELSE "guide"
    /\ UNCHANGED <<registryVars, flattenVars, config_kind, fs, fs_orig,
                   policies_outcome, browser, waited, launches, failures, ran,
                   zen_mods, mods_left>>

\* _register_profile_in_ini(..., update_only=True) and _update_installs_ini
\* after a bootstrap
Remerge ==
    /\ apc = "remerge"
    /\ profiles_ini' = RegisterProfileInIni(profiles_ini, profile_name, profile_path, TRUE)
    /\ installs_ini' = UpdateInstallsIni(profiles_ini', installs_ini, profile_path)
    /\ ran' = ran \cup {"remerge"}
    /\ apc' = "guide"
    /\ UNCHANGED <<profile_name, pc, update_only, profile_path, run, orig_profiles,
                   orig_installs, prior_profiles, prior_installs, first_profiles,
                   first_installs, flattenVars, config_kind, fs, fs_orig,
                   policies_outcome, browser, waited, launches, bootstrapped,
                   failures, zen_mods, mods_left>>

\* generate_setup_guide and the Popen that opens the guide
OpenGuide ==
    /\ apc = "guide"
    /\ fs' = [fs EXCEPT !.guide = "new"]
    /\ ran' = ran \cup {"guide"}
    /\ \E ok \in BOOLEAN :
           /\ failures' = IF ok THEN failures ELSE failures \cup {"guide"}
           /\ apc' = AfterOpenGuide(ok)
    /\ UNCHANGED <<registryVars, flattenVars, config_kind, fs_orig,
                   policies_outcome, browser, waited, launches, bootstrapped,
                   zen_mods, mods_left>>

\* install_zen_mods up to the loop: no mods, or fetch_theme_store, which
\* returns {} when the fetch fails
FetchThemeStore ==
    /\ apc = "mods"
    /\ ran' = ran \cup {"mods"}
    /\ IF zen_mods = 0
       THEN /\ apc' = "done"
            /\ UNCHANGED <<failures, mods_left>>
       ELSE \E ok \in BOOLEAN :
                IF ok
                THEN /\ apc' = "mod_pages"
                     /\ mods_left' = zen_mods
                     /\ UNCHANGED failures
                ELSE /\ failures' = failures \cup {"store"}
                     /\ apc' = "done"
                     /\ UNCHANGED mods_left
    /\ UNCHANGED <<registryVars, flattenVars, config_kind, fs, fs_orig,
                   policies_outcome, browser, waited, launches, bootstrapped,
                   zen_mods>>

\* one turn of the loop over zen_mods: the mod is not in the store, or its
\* page is opened, or the Popen raises and is caught
OpenModPage ==
    /\ apc = "mod_pages"
    /\ mods_left > 0
    /\ mods_left' = mods_left - 1
    /\ \E outcome \in {"not_found", "opened", "launch_failed"} :
           failures' = IF outcome = "launch_failed" THEN failures \cup {"mod"}
                       ELSE failures
    /\ UNCHANGED <<registryVars, flattenVars, apc, config_kind, fs, fs_orig,
                   policies_outcome, browser, waited, launches, bootstrapped,
                   ran, zen_mods>>

\* the loop over zen_mods ends; apply() and main() return
ModsDone ==
    /\ apc = "mod_pages"
    /\ mods_left = 0
    /\ apc' = "done"
    /\ UNCHANGED <<registryVars, flattenVars, config_kind, fs, fs_orig,
                   policies_outcome, browser, waited, launches, bootstrapped,
                   failures, ran, zen_mods, mods_left>>

\* the steps of the tool
ToolStep ==
    \/ LoadConfig \/ EnterDetect \/ Lookup \/ Register \/ RegisterRaises
    \/ UpdateInstalls \/ DetectRaised \/ GenerateUserJs \/ PoliciesStep
    \/ CreateBookmarks \/ BootstrapLaunch \/ Poll \/ PollTimeout \/ KillBrowser
    \/ VerifyInstall \/ Remerge \/ OpenGuide \/ FetchThemeStore \/ OpenModPage
    \/ ModsDone

NextApply == ToolStep \/ BrowserWrites

SpecApply == InitApply /\ [][NextApply]_vars

\* the tool is one thread that runs until it exits: once in the poll loop it
\* goes on to the kill, and once at the setup guide it goes on to the end;
\* nothing is assumed of the browser
SpecApplyFair ==
    /\ SpecApply
    /\ WF_vars(Poll \/ PollTimeout \/ KillBrowser)
    /\ WF_vars(OpenGuide \/ FetchThemeStore \/ OpenModPage \/ ModsDone)

\* ------------------------------------------------------------------ reading a run
PollLimit == max_wait * polls_per_second

Exited == apc \in {"done", "exit1", "raised"}

\* C17: the poll loop makes at most max_wait / interval polls, ends at the
\* poll that sees an Install section, always ends (the function goes on to
\* its final check) whatever the browser writes, and is started at most
\* once in a run.
C17_PollLoopBounded ==
    /\ [](waited <= PollLimit /\ launches <= 1)
    /\ [][(apc = "polling" /\ waited' # waited /\ HasInstall(profiles_ini))
             => apc' = "kill"]_vars
    /\ (apc = "polling") ~> (apc = "verify")

C17_Witness ==
    /\ apc = "verify"
    /\ waited = PollLimit
    /\ ~HasInstall(profiles_ini)

\* C18: when the rendered policies text is not well-formed JSON the run
\* exits with status 1 and /tmp/policies.json and the installed
\* policies.json are what they were before the run.
C18_InvalidPoliciesNotPlaced ==
    policies_outcome = "invalid" =>
        /\ apc = "exit1"
        /\ fs.tmp_policies = fs_orig.tmp_policies
        /\ fs.policies_json = fs_orig.policies_json

C18_Witness ==
    /\ policies_outcome = "invalid"
    /\ fs_orig.tmp_policies = "old"
    /\ fs.user_js = "new"

\* C19: when the configuration does not load as a mapping the run ends with
\* the exception and no directory, registry file, preference file or policy
\* file is created or changed.
C19_MalformedConfigNoEffect ==
    config_kind # "mapping" =>
        /\ apc \in {"main", "apply", "raised"}
        /\ fs = fs_orig
        /\ profiles_ini = orig_profiles
        /\ installs_ini = orig_installs

\* C20: a failed theme-store fetch or browser launch never ends the run: the
\* step it belongs to is skipped (no re-merge after a failed bootstrap
\* launch, no mod page after a failed fetch) and the run goes on to its end
\* with the setup guide written and install_zen_mods run.
C20_FailuresDoNotAbort ==
    /\ [](failures # {} =>
            /\ apc \notin {"exit1", "raised"}
            /\ "bootstrap" \in failures => (launches = 0 /\ "remerge" \notin ran)
            /\ "store" \in failures => (apc = "done" /\ mods_left = 0))
    /\ (failures # {}) ~> (apc = "done" /\ {"guide", "mods"} \subseteq ran)

C20_Witness ==
    /\ apc = "done"
    /\ {"bootstrap", "guide", "mod"} \subseteq failures

\* ------------------------------------------------------------------ cross-section reading
\* the directory a path string designates under the profile root
UnderRoot(str) == IF str \in {"", "."} THEN ZenDir ELSE JoinPath(ZenDir, PathOf(str))

ValueOf(sec, key, default) ==
    IF key \in Keys(sec) THEN (CHOOSE kv \in KeyMap(sec) : kv[1] = key)[2] ELSE default

\* the directory of a Profile* section: Path under the root when
\* IsRelative=1, Path itself otherwise
ProfileDir(sec) ==
    IF ValueOf(sec, "IsRelative", "") = "1"
    THEN UnderRoot(ValueOf(sec, "Path", ""))
    ELSE IF ValueOf(sec, "Path", "") = "" THEN MkPath(FALSE, <<>>)
    ELSE PathOf(ValueOf(sec, "Path", ""))

IsDefault(sec) == <<"Default", "1">> \in KeyMap(sec)

\* C21: after a successful merge the Default of every Install* section,
\* taken under the profile root, is the directory of the Profile* section
\* that carries Default=1.
C21_InstallsPointAtDefault ==
    Merged =>
        \A j \in 1..Len(InstallSections(profiles_ini)) :
            /\ \E i \in 1..Len(ProfileSections(profiles_ini)) :
                   IsDefault(ProfileSections(profiles_ini)[i])
            /\ \A i \in 1..Len(ProfileSections(profiles_ini)) :
                   IsDefault(ProfileSections(profiles_ini)[i]) =>
                       UnderRoot(ValueOf(InstallSections(profiles_ini)[j], "Default", ""))
                         = ProfileDir(ProfileSections(profiles_ini)[i])

\* p is not root or a path below it, component by component (as pathlib
\* compares paths: '..' and links are not followed)
Outside(p, root) ==
    \/ p.abs # root.abs
    \/ Len(p.parts) < Len(root.parts)
    \/ \E i \in 1..Len(root.parts) : i <= Len(p.parts) /\ p.parts[i] # root.parts[i]

C23_BootstrapOrdering ==
    /\ [][(browser # "running" /\ browser' = "running")
             => InstallSections(profiles_ini) = <<>>]_vars
    /\ [][("remerge" \notin ran /\ "remerge" \in ran')
             => (browser = "terminated" /\ bootstrapped
                   /\ InstallSections(profiles_ini) # <<>>)]_vars
    /\ [][(pc = "done" /\ browser # "running"
             /\ (profiles_ini' # profiles_ini \/ installs_ini' # installs_ini))
             => (launches = 1 /\ browser = "terminated" /\ bootstrapped)]_vars
    /\ []("remerge" \in ran => (launches = 1 /\ bootstrapped))

C23_Witness ==
    /\ apc = "done"
    /\ "remerge" \in ran
    /\ profiles_ini # orig_profiles

\* C24: the written profiles.ini starts with a [General] section holding
\* exactly StartWithLastProfile=1 and Version=2, every other section is a
\* Profile* or an Install* section, and an Install* section has no key but
\* Default and Locked, whatever the prior text held.
C24_OnlyProfileAndInstallKept ==
    Merged =>
        LET secs == SectionsOf(profiles_ini)
        IN  /\ profiles_ini.lines[1] = Hdr(<<"General">>)
            /\ secs[1] = [name |-> <<"General">>,
                          body |-> <<<<"StartWithLastProfile", "1">>, <<"Version", "2">>>>]
            /\ \A i \in 2..Len(secs) : IsProfile(secs[i]) \/ IsInstall(secs[i])
            /\ \A i \in 1..Len(secs) :
                   IsInstall(secs[i]) => Keys(secs[i]) \subseteq {"Default", "Locked"}

C24_Witness ==
    /\ Merged
    /\ \E i \in 1..Len(SectionsOf(prior_profiles)) :
           /\ SectionsOf(prior_profiles)[i].name = <<"General">>
           /\ <<"StartWithLastProfile", "0">> \in KeyMap(SectionsOf(prior_profiles)[i])
    /\ \E i \in 1..Len(SectionsOf(prior_profiles)) :
           SectionsOf(prior_profiles)[i].name = <<"Other">>
    /\ \E i \in 1..Len(InstallSections(prior_profiles)) :
           "Extra" \in Keys(InstallSections(prior_profiles)[i])

\* C25: no leaf is lost: the result has as many entries as the traversal
\* emits pairs (non-mapping values and promoted "enabled" values), and
\* every emitted pair is an entry of the result.
C25_NoLeafLost ==
    Returned =>
        /\ Len(flattened_config) = Len(PreOrder(config_arg, <<>>))
        /\ \A i \in 1..Len(PreOrder(config_arg, <<>>)) :
               Entry(flattened_config, PreOrder(config_arg, <<>>)[i][1],
                     PreOrder(config_arg, <<>>)[i][2])
====
